---- MODULE Spec2Model ----
(***************************************************************************)
(* Phone-book command line dispatcher (internal/controller/controller.go)  *)
(* together with the record store it calls (package phonebook).            *)
(*                                                                         *)
(* The program is a single-shot utility: a process is started, makes one   *)
(* call CommandLineHandler(arguments) against the persisted collection,    *)
(* and exits; the collection outlives it.  A Run step is that call, Exit   *)
(* is the end of the process, after which the next one may be started.     *)
(* The package phonebook is not part of the sources at hand; GetList,      *)
(* Serach, Insert and Delete follow the written specification of the       *)
(* Record Store.                                                           *)
(***************************************************************************)
EXTENDS Integers, Sequences, FiniteSets, TLC

\* ---------------------------------------------------------------- bounds
\* largest identifier the store hands out in the model
MaxId == 3
\* longest argument vector (program name included)
MaxArgs == 6

\* ------------------------------------------------------------ input sets
\* texts used for names, surnames, phone numbers, search terms and keys
Strings == {"a", "b"}
\* element 0 of the argument vector
ProgramName == "phonebook"
\* element 1 of the argument vector; "help" stands for any unrecognised one
Subcommands == {"search", "list", "insert", "delete", "help"}

\* an element of the argument vector that the subcommand's case never reads;
\* only the number of such elements counts
Surplus == "x"

\* how many elements after the subcommand its case reads: arguments[2] for
\* search and delete, arguments[2..4] for insert, none for the others
Reads(c) ==
    CASE c = "insert" -> 3
      [] c \in {"search", "delete"} -> 1
      [] OTHER -> 0

\* n elements after the subcommand c: the read ones from Strings, then surplus
Tails(c, n) ==
    LET m == IF n <= Reads(c) THEN n ELSE Reads(c) IN
    { [i \in 1..n |-> IF i <= m THEN t[i] ELSE Surplus] : t \in [1..m -> Strings] }

\* every argument vector of length 0..MaxArgs
ArgVectors ==
    {<<>>, <<ProgramName>>} \cup
    UNION { UNION { { <<ProgramName, c>> \o t : t \in Tails(c, n) } : c \in Subcommands }
            : n \in 0..(MaxArgs - 2) }

\* ------------------------------------------------------------ data model
\* the nil error
nil == "<nil>"
\* messages of the store's failures
NotFound == "not found"
LoadError == "could not load the phone book"
SaveError == "could not save the phone book"

\* the zero Entry
NoEntry == [ID |-> 0, Name |-> "", Surname |-> "", PhoneNumber |-> ""]

\* Go indexes from 0, TLA+ from 1
Arg(arguments, i) == arguments[i + 1]

\* one printed line: a literal text, a formatted identifier, printed entries
Line(text) == [text |-> text, id |-> 0, entries |-> <<>>]
\* fmt.Println(result) of a single entry
ResultLine(entry) == [text |-> "", id |-> 0, entries |-> <<entry>>]
\* fmt.Println(usersList)
ListLine(list) == [text |-> "", id |-> 0, entries |-> list]
\* fmt.Printf("successfully inserted with id = %d \n", id)
InsertedLine(id) == [text |-> "successfully inserted with id = ", id |-> id, entries |-> <<>>]

\* one store call made by the dispatcher, with the error it returned
Call(op, err) == [op |-> op, err |-> err]

\* the handler returned normally after printing out and making calls
Return(o, c, s) == [out |-> o, calls |-> c, store |-> s, outcome |-> "return"]
\* the handler ended in a run-time panic (index out of range)
Panic(s) == [out |-> <<>>, calls |-> <<>>, store |-> s, outcome |-> "panic"]

\* ---------------------------------------------------------- record store
IdsOf(list) == {list[i].ID : i \in DOMAIN list}

\* one greater than the maximum identifier present, 1 for the empty collection
NextID(list) ==
    IF list = <<>> THEN 1
    ELSE (CHOOSE m \in IdsOf(list) : \A k \in IdsOf(list) : k <= m) + 1

\* the full collection in its current order, or a load failure
GetList(list, loadFail) ==
    IF loadFail THEN [list |-> <<>>, err |-> LoadError]
    ELSE [list |-> list, err |-> nil]

\* a term matches an entry when it equals its name, surname or phone number
Matches(entry, term) ==
    \/ entry.Name = term
    \/ entry.Surname = term
    \/ entry.PhoneNumber = term

\* linear scan, first match in collection order wins
Serach(list, term) ==
    LET hits == {i \in DOMAIN list : Matches(list[i], term)} IN
    IF hits = {} THEN [entry |-> NoEntry, err |-> NotFound]
    ELSE [entry |-> list[CHOOSE i \in hits : \A j \in hits : i <= j], err |-> nil]

\* assigns the next identifier and appends, or fails on the persistence write
Insert(list, entry, saveFail) ==
    IF saveFail THEN [list |-> list, id |-> 0, err |-> SaveError]
    ELSE LET id == NextID(list) IN
         [list |-> Append(list, [entry EXCEPT !.ID = id]), id |-> id, err |-> nil]

\* removes the first entry whose phone number equals the key, order of the
\* others kept; not-found leaves the collection alone, and so does a failure
\* of the persistence write of the shortened collection
Delete(list, phoneNumber, saveFail) ==
    LET hits == {i \in DOMAIN list : list[i].PhoneNumber = phoneNumber} IN
    IF hits = {} THEN [list |-> list, err |-> NotFound]
    ELSE IF saveFail THEN [list |-> list, err |-> SaveError]
    ELSE LET i == CHOOSE k \in hits : \A j \in hits : k <= j IN
         [list |-> SubSeq(list, 1, i - 1) \o SubSeq(list, i + 1, Len(list)), err |-> nil]

\* ------------------------------------------------------------ dispatcher
checkArgumentsLength(arguments) ==
    IF Len(arguments) = 1 THEN "Please enter required arguments!!" ELSE nil

\* a validation that lets over-long vectors through
validateInsertAtLeast(arguments) ==
    IF Len(arguments) < 5 THEN "not enought arguments for insert" ELSE nil

validateInsert(arguments) ==
    IF Len(arguments) # 5 THEN "not enought arguments for insert" ELSE nil

validateDelete(arguments) ==
    IF Len(arguments) # 3 THEN "not enought arguments for delete" ELSE nil

\* the search case with the GetList error left unchecked
HandleSearchUnchecked(arguments, list, loadFail) ==
    IF Len(arguments) # 3
    THEN Return(<<Line("Please provide a search term")>>, <<>>, list)
    ELSE LET g == GetList(list, loadFail)
             s == Serach(g.list, Arg(arguments, 2)) IN
         IF s.err # nil
         THEN Return(<<Line(s.err)>>, <<Call("GetList", g.err), Call("Serach", s.err)>>, list)
         ELSE Return(<<ResultLine(s.entry)>>,
                     <<Call("GetList", g.err), Call("Serach", s.err)>>, list)

\* the search case searching for the subcommand name instead of the term
HandleSearchWrongTerm(arguments, list, loadFail) ==
    IF Len(arguments) # 3
    THEN Return(<<Line("Please provide a search term")>>, <<>>, list)
    ELSE LET g == GetList(list, loadFail) IN
         IF g.err # nil
         THEN Return(<<Line(g.err)>>, <<Call("GetList", g.err)>>, list)
         ELSE LET s == Serach(g.list, Arg(arguments, 1)) IN
              IF s.err # nil
              THEN Return(<<Line(s.err)>>,
                          <<Call("GetList", g.err), Call("Serach", s.err)>>, list)
              ELSE Return(<<ResultLine(s.entry)>>,
                          <<Call("GetList", g.err), Call("Serach", s.err)>>, list)

\* case "search"
HandleSearch(arguments, list, loadFail) ==
    IF Len(arguments) # 3
    THEN Return(<<Line("Please provide a search term")>>, <<>>, list)
    ELSE LET g == GetList(list, loadFail) IN
         IF g.err # nil
         THEN Return(<<Line(g.err)>>, <<Call("GetList", g.err)>>, list)
         ELSE LET s == Serach(g.list, Arg(arguments, 2)) IN
              IF s.err # nil
              THEN Return(<<Line(s.err)>>,
                          <<Call("GetList", g.err), Call("Serach", s.err)>>, list)
              ELSE Return(<<ResultLine(s.entry)>>,
                          <<Call("GetList", g.err), Call("Serach", s.err)>>, list)

\* case "list": no check of the vector's length
HandleList(arguments, list, loadFail) ==
    LET g == GetList(list, loadFail) IN
    IF g.err # nil
    THEN Return(<<Line(g.err)>>, <<Call("GetList", g.err)>>, list)
    ELSE Return(<<ListLine(g.list)>>, <<Call("GetList", g.err)>>, list)

\* the insert case with the Insert error left unchecked
HandleInsertUnchecked(arguments, list, saveFail) ==
    IF validateInsert(arguments) # nil
    THEN Return(<<Line(validateInsert(arguments))>>, <<>>, list)
    ELSE LET r == Insert(list, [ID |-> 0, Name |-> Arg(arguments, 2),
                                Surname |-> Arg(arguments, 3),
                                PhoneNumber |-> Arg(arguments, 4)], saveFail) IN
         Return(<<InsertedLine(r.id)>>, <<Call("Insert", r.err)>>, r.list)

\* case "insert"
HandleInsert(arguments, list, saveFail) ==
    IF validateInsert(arguments) # nil
    THEN Return(<<Line(validateInsert(arguments))>>, <<>>, list)
    ELSE LET r == Insert(list, [ID |-> 0, Name |-> Arg(arguments, 2),
                                Surname |-> Arg(arguments, 3),
                                PhoneNumber |-> Arg(arguments, 4)], saveFail) IN
         IF r.err # nil
         THEN Return(<<Line(r.err)>>, <<Call("Insert", r.err)>>, r.list)
         ELSE Return(<<InsertedLine(r.id)>>, <<Call("Insert", r.err)>>, r.list)

\* the delete case with the Delete error left unchecked
HandleDeleteUnchecked(arguments, list, saveFail) ==
    IF validateDelete(arguments) # nil
    THEN Return(<<Line(validateDelete(arguments))>>, <<>>, list)
    ELSE LET r == Delete(list, Arg(arguments, 2), saveFail) IN
         Return(<<Line("successfully deleted")>>, <<Call("Delete", r.err)>>, r.list)

\* the delete case passing the subcommand name as the key
HandleDeleteWrongKey(arguments, list, saveFail) ==
    IF validateDelete(arguments) # nil
    THEN Return(<<Line(validateDelete(arguments))>>, <<>>, list)
    ELSE LET r == Delete(list, Arg(arguments, 1), saveFail) IN
         IF r.err # nil
         THEN Return(<<Line(r.err)>>, <<Call("Delete", r.err)>>, r.list)
         ELSE Return(<<Line("successfully deleted")>>, <<Call("Delete", r.err)>>, r.list)

\* case "delete"
HandleDelete(arguments, list, saveFail) ==
    IF validateDelete(arguments) # nil
    THEN Return(<<Line(validateDelete(arguments))>>, <<>>, list)
    ELSE LET r == Delete(list, Arg(arguments, 2), saveFail) IN
         IF r.err # nil
         THEN Return(<<Line(r.err)>>, <<Call("Delete", r.err)>>, r.list)
         ELSE Return(<<Line("successfully deleted")>>, <<Call("Delete", r.err)>>, r.list)

\* the whole handler: the length check's error is dropped without printing,
\* and arguments[1] is read from any vector whose length is not 1
CommandLineHandler(arguments, list, loadFail, saveFail) ==
    IF checkArgumentsLength(arguments) # nil THEN Return(<<>>, <<>>, list)
    ELSE IF Len(arguments) < 2 THEN Panic(list)
    ELSE CASE Arg(arguments, 1) = "search" -> HandleSearch(arguments, list, loadFail)
           [] Arg(arguments, 1) = "list"   -> HandleList(arguments, list, loadFail)
           [] Arg(arguments, 1) = "insert" -> HandleInsert(arguments, list, saveFail)
           [] Arg(arguments, 1) = "delete" -> HandleDelete(arguments, list, saveFail)
           [] OTHER -> Return(<<Line("not valid option")>>, <<>>, list)

\* ----------------------------------------------------------------- state
VARIABLES
    store,      \* the persisted collection of entries
    arguments,  \* argument vector of the last run
    out,        \* lines the last run printed
    calls,      \* store calls the last run made
    outcome,    \* "none" while no process runs, then "return" or "panic"
    before,     \* the collection as the last run found it
    issued      \* identifiers held by entries in any collection before the last run

vars == <<store, arguments, out, calls, outcome, before, issued>>

Init ==
    /\ store = <<>>
    /\ arguments = <<>>
    /\ out = <<>>
    /\ calls = <<>>
    /\ outcome = "none"
    /\ before = <<>>
    /\ issued = {}

\* one run of the program on the vector a
Invoke(a, loadFail, saveFail) ==
    LET r == CommandLineHandler(a, store, loadFail, saveFail) IN
    /\ outcome = "none"
    /\ \A k \in IdsOf(r.store) : k <= MaxId
    /\ store' = r.store
    /\ arguments' = a
    /\ out' = r.out
    /\ calls' = r.calls
    /\ outcome' = r.outcome
    /\ before' = store
    /\ issued' = issued \cup IdsOf(store)

RunNoSubcommand ==
    \E a \in ArgVectors : Len(a) < 2 /\ Invoke(a, FALSE, FALSE)

RunSearch ==
    \E a \in ArgVectors, loadFail \in BOOLEAN :
        Len(a) >= 2 /\ Arg(a, 1) = "search" /\ Invoke(a, loadFail, FALSE)

RunList ==
    \E a \in ArgVectors, loadFail \in BOOLEAN :
        Len(a) >= 2 /\ Arg(a, 1) = "list" /\ Invoke(a, loadFail, FALSE)

RunInsert ==
    \E a \in ArgVectors, saveFail \in BOOLEAN :
        Len(a) >= 2 /\ Arg(a, 1) = "insert" /\ Invoke(a, FALSE, saveFail)

RunDelete ==
    \E a \in ArgVectors, saveFail \in BOOLEAN :
        Len(a) >= 2 /\ Arg(a, 1) = "delete" /\ Invoke(a, FALSE, saveFail)

RunOther ==
    \E a \in ArgVectors :
        Len(a) >= 2 /\ Arg(a, 1) \notin {"search", "list", "insert", "delete"}
        /\ Invoke(a, FALSE, FALSE)

\* the process ends; what it printed and called is gone, the collection stays
Exit ==
    /\ outcome # "none"
    /\ arguments' = <<>>
    /\ out' = <<>>
    /\ calls' = <<>>
    /\ outcome' = "none"
    /\ before' = store
    /\ UNCHANGED <<store, issued>>

Next ==
    \/ Exit
    \/ RunNoSubcommand
    \/ RunSearch
    \/ RunList
    \/ RunInsert
    \/ RunDelete
    \/ RunOther

Spec == Init /\ [][Next]_vars

\* ------------------------------------------------------------ properties
\* the last run was subcommand c with a vector of n elements
Ran(c, n) == outcome # "none" /\ Len(arguments) = n /\ Arg(arguments, 1) = c
\* the last run was subcommand c
RanCmd(c) == outcome # "none" /\ Len(arguments) >= 2 /\ Arg(arguments, 1) = c
\* the last run printed the insert confirmation
InsertSucceeded == Len(out) = 1 /\ out[1].text = "successfully inserted with id = "

TypeOK ==
    /\ outcome \in {"none", "return", "panic"}
    /\ Len(out) <= 1
    /\ Len(calls) <= 2
    /\ IdsOf(store) \subseteq 1..MaxId

\* the last run searched with a well-shaped vector and GetList succeeded
SearchedLoaded ==
    /\ Ran("search", 3)
    /\ outcome = "return"
    /\ Len(calls) >= 1
    /\ calls[1] = Call("GetList", nil)

\* positions of the collection whose phone number is the key
KeyHits(list, key) == {i \in DOMAIN list : list[i].PhoneNumber = key}

\* the list without its i-th element
Without(list, i) == [k \in 1..(Len(list) - 1) |-> IF k < i THEN list[k] ELSE list[k + 1]]

\* C1: a run on a vector of length 1 prints the missing-arguments message
\* 'Please enter required arguments!!' and makes no store call.
C1_MissingArgumentsPrinted ==
    (outcome # "none" /\ Len(arguments) = 1)
        => /\ out = <<Line("Please enter required arguments!!")>>
           /\ calls = <<>>
           /\ store = before

\* C2: every run, whatever the length of its vector (the empty one included)
\* and whatever the store answers, ends by a normal return.
C2_AlwaysReturns == outcome # "panic"

\* C3: search with a length other than 3, insert with a length other than 5
\* and delete with a length other than 3 print their validation message,
\* make no store call and leave the collection alone.
C3_ShapeErrorsBeforeStore ==
    /\ (RanCmd("search") /\ Len(arguments) # 3)
          => /\ out = <<Line("Please provide a search term")>>
             /\ calls = <<>> /\ store = before /\ outcome = "return"
    /\ (RanCmd("insert") /\ Len(arguments) # 5)
          => /\ out = <<Line("not enought arguments for insert")>>
             /\ calls = <<>> /\ store = before /\ outcome = "return"
    /\ (RanCmd("delete") /\ Len(arguments) # 3)
          => /\ out = <<Line("not enought arguments for delete")>>
             /\ calls = <<>> /\ store = before /\ outcome = "return"

\* an insert run with one element too many was turned away before the store
C3_Witness ==
    /\ Ran("insert", 6)
    /\ before # <<>>
    /\ out = <<Line("not enought arguments for insert")>>
    /\ calls = <<>>
    /\ store = before

\* C4: list requires a vector of exactly 2 elements; with extra elements
\* after `list` the collection is neither fetched nor printed.
C4_ListExactShape ==
    (RanCmd("list") /\ Len(arguments) > 2)
        => /\ calls = <<>>
           /\ \A i \in DOMAIN out : out[i] # ListLine(before)

\* C5: a successful insert of a 5-element vector is assigned an identifier
\* strictly greater than every identifier present before the call, 1 when
\* the collection was empty, and the entry is appended under that identifier.
C5_InsertAssignsFreshMax ==
    (RanCmd("insert") /\ InsertSucceeded)
        => /\ Len(arguments) = 5
           /\ \A k \in IdsOf(before) : out[1].id > k
           /\ (before = <<>> => out[1].id = 1)
           /\ store = Append(before, [ID |-> out[1].id, Name |-> Arg(arguments, 2),
                                      Surname |-> Arg(arguments, 3),
                                      PhoneNumber |-> Arg(arguments, 4)])

\* an insert into a collection holding only identifier 2 was assigned 3
C5_Witness ==
    /\ Ran("insert", 5)
    /\ InsertSucceeded
    /\ IdsOf(before) = {2}
    /\ out[1].id = 3

\* C6: the identifier assigned by a successful insert was never held by an
\* earlier entry, deleted ones included.
C6_IdentifierNeverReused ==
    (RanCmd("insert") /\ InsertSucceeded) => out[1].id \notin issued

\* C7 as stated: a search on the exact phone number of any entry of the
\* collection prints that very entry.
C7_RoundTripEveryEntry ==
    SearchedLoaded =>
        \A i \in DOMAIN before :
            before[i].PhoneNumber = Arg(arguments, 2) => out = <<ResultLine(before[i])>>

\* C7 amended: a search on the exact phone number of an entry of the
\* collection never reports not-found; it prints the first entry in
\* collection order whose name, surname or phone number equals the term,
\* which is that entry when no earlier entry matches the term.
C7_RoundTripFirstMatch ==
    SearchedLoaded =>
        \A i \in DOMAIN before :
            before[i].PhoneNumber = Arg(arguments, 2) =>
                /\ Len(calls) = 2 /\ calls[2] = Call("Serach", nil)
                /\ \E j \in 1..i :
                      /\ Matches(before[j], Arg(arguments, 2))
                      /\ \A k \in 1..(j - 1) : ~Matches(before[k], Arg(arguments, 2))
                      /\ out = <<ResultLine(before[j])>>
                /\ ((\A k \in 1..(i - 1) : ~Matches(before[k], Arg(arguments, 2)))
                       => out = <<ResultLine(before[i])>>)

\* the second entry was found by its phone number, the first one not matching
C7_Witness ==
    /\ SearchedLoaded
    /\ Len(before) = 2
    /\ before[2].PhoneNumber = Arg(arguments, 2)
    /\ ~Matches(before[1], Arg(arguments, 2))
    /\ out = <<ResultLine(before[2])>>

\* C8: delete with a key that is the phone number of no entry leaves the
\* collection as it was, gets the not-found error from the store and prints
\* that message, not 'successfully deleted'.
C8_DeleteAbsentKeyUnchanged ==
    (Ran("delete", 3) /\ KeyHits(before, Arg(arguments, 2)) = {})
        => /\ store = before
           /\ calls = <<Call("Delete", NotFound)>>
           /\ out = <<Line(NotFound)>>
           /\ outcome = "return"

\* a delete of an absent key ran against a collection of two entries
C8_Witness ==
    /\ Ran("delete", 3)
    /\ Len(before) = 2
    /\ KeyHits(before, Arg(arguments, 2)) = {}
    /\ calls = <<Call("Delete", NotFound)>>

\* C9 as stated: delete with a key that is the phone number of exactly one
\* entry removes that entry: the collection is one shorter and the other
\* entries keep their values and their order.
C9_DeleteAlwaysRemovesTheMatch ==
    (Ran("delete", 3) /\ Cardinality(KeyHits(before, Arg(arguments, 2))) = 1)
        => /\ Len(store) = Len(before) - 1
           /\ \E i \in KeyHits(before, Arg(arguments, 2)) : store = Without(before, i)

\* C9 amended: delete with a key that is the phone number of exactly one
\* entry either succeeds, and then the collection is one shorter, the entry
\* removed is the matching one, the others keep their values and order and
\* 'successfully deleted' is printed; or the persistence write fails, and
\* then the collection is unchanged and the failure's message is printed.
C9_DeleteRemovesExactlyTheMatch ==
    (Ran("delete", 3) /\ Cardinality(KeyHits(before, Arg(arguments, 2))) = 1)
        => \/ /\ calls = <<Call("Delete", nil)>>
              /\ Len(store) = Len(before) - 1
              /\ \E i \in KeyHits(before, Arg(arguments, 2)) : store = Without(before, i)
              /\ out = <<Line("successfully deleted")>>
           \/ /\ calls = <<Call("Delete", SaveError)>>
              /\ store = before
              /\ out = <<Line(SaveError)>>

\* the first of three entries, the only one with the key, was deleted and
\* the two others stayed in their order
C9_Witness ==
    /\ Ran("delete", 3)
    /\ Len(before) = 3
    /\ KeyHits(before, Arg(arguments, 2)) = {1}
    /\ before[2] # before[3]
    /\ store = <<before[2], before[3]>>
    /\ out = <<Line("successfully deleted")>>

\* C10: a store error ends the run: the failing call is the last call, its
\* message is the only line printed, the collection is left alone, and
\* Serach is called only as second call after a GetList without error.
C10_ErrorsInspectedFirst ==
    outcome = "return" =>
        /\ \A i \in DOMAIN calls :
              calls[i].err # nil
                  => /\ i = Len(calls)
                     /\ out = <<Line(calls[i].err)>>
                     /\ store = before
        /\ \A i \in DOMAIN calls :
              calls[i].op = "Serach" => (i = 2 /\ calls[1] = Call("GetList", nil))

\* a search whose GetList failed printed the load error and never searched
C10_Witness ==
    /\ Ran("search", 3)
    /\ calls = <<Call("GetList", LoadError)>>
    /\ out = <<Line(LoadError)>>
    /\ before # <<>>

====
